---- MODULE Spec2Model ----
(***************************************************************************)
(* Model of examples/pipelines/providers/gemini_grounding.py: the          *)
(* Pipeline adapter between the host chat UI and the Google GenAI SDK.     *)
(*                                                                         *)
(* Representation of Python values:                                        *)
(*   - a str is a sequence of pieces (TLA+ strings); concatenation is \o,  *)
(*     the empty str is <<>>.  Model ids are written character by          *)
(*     character, so that startswith / lstrip / "in" work on characters;   *)
(*     literal messages of the source are one piece each.                  *)
(*   - a value that may be of several Python types is a record tagged by   *)
(*     its field t ("str", "list", "none", "dict").                        *)
(*   - a dict is a record; a missing key is a missing field.               *)
(*   - an exception is the name of its class ("none": nothing was raised). *)
(***************************************************************************)
EXTENDS Integers, Sequences, FiniteSets, TLC

VARIABLES
    phase,       \* "none" (no object yet) | "live" | "failed" (__init__ raised)
    valves,      \* self.valves
    configured,  \* api key held by the vendor SDK's module configuration
    pipelines,   \* self.pipelines
    listing,     \* what the vendor's model-list query did the last time it ran
    op,          \* the last operation the host ran on the object
    raised,      \* exception that operation raised to the host ("none")
    calls,       \* vendor calls that operation made, in order
    req,         \* arguments of the last pipe call
    ret,         \* value the last pipe call returned
    genCall,     \* arguments the last pipe call handed to the vendor
    fin,         \* argument of the function under test (prepare_contents, format_response)
    fout,        \* its result
    sResp,       \* vendor chunk iterator handed to stream_response
    sPos,        \* chunks the generator has taken from it
    sPc,         \* where the generator is suspended
    sOut,        \* fragments the consumer has received, in order
    sExc,        \* exception that escaped the generator into the consumer
    sStops       \* StopIteration signals the consumer has received

vars == <<phase, valves, configured, pipelines, listing, op, raised, calls,
          req, ret, genCall, fin, fout, sResp, sPos, sPc, sOut, sExc, sStops>>

lifeVars == <<phase, valves, configured, pipelines, listing, op, raised, calls>>
pipeVars == <<req, ret, genCall>>
funVars == <<fin, fout>>
streamVars == <<sResp, sPos, sPc, sOut, sExc, sStops>>

(***************************************************************************)
(* Python str and list helpers                                             *)
(***************************************************************************)
None == [t |-> "none"]
PyStr(s) == [t |-> "str", v |-> s]
PyList(l) == [t |-> "list", v |-> l]

\* str.startswith(prefix)
StartsWith(s, p) == Len(s) >= Len(p) /\ SubSeq(s, 1, Len(p)) = p

\* sub in s
Contains(s, sub) ==
    \E i \in 0..(Len(s) - Len(sub)) : SubSeq(s, i + 1, i + Len(sub)) = sub

\* s.lstrip(ch)
RECURSIVE LStrip(_, _)
LStrip(s, ch) ==
    IF s # <<>> /\ Head(s) = ch THEN LStrip(Tail(s), ch) ELSE s

\* s.split(sep): the pieces between the occurrences of sep
RECURSIVE SplitFrom(_, _, _)
SplitFrom(s, sep, cur) ==
    IF s = <<>> THEN <<cur>>
    ELSE IF Head(s) = sep THEN <<cur>> \o SplitFrom(Tail(s), sep, <<>>)
    ELSE SplitFrom(Tail(s), sep, Append(cur, Head(s)))

Split(s, sep) == SplitFrom(s, sep, <<>>)

\* truthiness of a tagged Python value
Truthy(x) == x.t # "none" /\ x.v # <<>>

(***************************************************************************)
(* prepare_contents                                                        *)
(***************************************************************************)
KnownRoles == {"user", "assistant", "system"}
DataImage == <<"data:image">>
Comma == ","

\* image_url = part.get("image_url", {}).get("url", "")
ImageUrlOf(part) ==
    IF "image_url" \in DOMAIN part /\ "url" \in DOMAIN part.image_url
    THEN part.image_url.url ELSE <<>>

\* parts.append(x) in the loop over a message's parts
AppendPart(parts, x) == Append(parts, x)

\* the loop over a list content: [raised, parts]
RECURSIVE PartsLoop(_, _)
PartsLoop(content, parts) ==
    IF content = <<>> THEN [raised |-> "none", parts |-> parts]
    ELSE LET part == Head(content)
             ty == IF "type" \in DOMAIN part THEN part.type ELSE "None"
         IN  IF ty = "text"
             THEN PartsLoop(Tail(content),
                      AppendPart(parts,
                          [text |-> IF "text" \in DOMAIN part THEN part.text ELSE <<>>]))
             ELSE IF ty = "image_url"
             THEN LET url == ImageUrlOf(part) IN
                  IF StartsWith(url, DataImage)
                  THEN IF Len(Split(url, Comma)) < 2
                       THEN [raised |-> "IndexError", parts |-> parts]
                       ELSE PartsLoop(Tail(content),
                                AppendPart(parts,
                                    [inline_data |->
                                        [mime_type |-> "image/jpeg",
                                         data |-> Split(url, Comma)[2]]]))
                  ELSE PartsLoop(Tail(content), AppendPart(parts, [image_url |-> url]))
             ELSE PartsLoop(Tail(content), parts)

\* a translation that puts each new entry in front of the earlier ones
PrependEntry(contents, entry) == <<entry>> \o contents

\* contents.append(entry)
AppendEntry(contents, entry) == Append(contents, entry)

\* the loop over the messages: [raised, contents]
RECURSIVE MessagesLoop(_, _)
MessagesLoop(messages, contents) ==
    IF messages = <<>> THEN [raised |-> "none", contents |-> contents]
    ELSE LET message == Head(messages)
             role == IF "role" \in DOMAIN message THEN message.role ELSE "None"
             content == IF "content" \in DOMAIN message THEN message.content ELSE None
         IN  IF role \notin KnownRoles
             THEN MessagesLoop(Tail(messages), contents)
             ELSE IF content.t = "list"
             THEN LET r == PartsLoop(content.v, <<>>) IN
                  IF r.raised # "none"
                  THEN [raised |-> r.raised, contents |-> contents]
                  ELSE MessagesLoop(Tail(messages),
                           AppendEntry(contents, [role |-> role, parts |-> r.parts]))
             ELSE IF content.t = "str"
             THEN MessagesLoop(Tail(messages),
                      AppendEntry(contents,
                          [role |-> role, parts |-> <<[text |-> content.v]>>]))
             ELSE MessagesLoop(Tail(messages), contents)

prepare_contents(messages) == MessagesLoop(messages, <<>>)

(***************************************************************************)
(* Host messages given to prepare_contents.  Every payload carries the     *)
(* position it was written at, so that a moved or repeated part shows.     *)
(***************************************************************************)
MaxMsgs == 2

Roles == {"user", "assistant", "system", "tool"}

MkPart(kind, tag) ==
    CASE kind = "text" -> [type |-> "text", text |-> <<"txt-" \o tag>>]
      [] kind = "text_nokey" -> [type |-> "text"]
      [] kind = "data" ->
            [type |-> "image_url",
             image_url |-> [url |-> <<"data:image", "/png;base64", ",", "b64-" \o tag>>]]
      [] kind = "data_2commas" ->
            [type |-> "image_url",
             image_url |-> [url |-> <<"data:image", ",", "b64-" \o tag, ",", "tail">>]]
      [] kind = "data_nocomma" ->
            [type |-> "image_url", image_url |-> [url |-> <<"data:image", "/png">>]]
      [] kind = "url" ->
            [type |-> "image_url", image_url |-> [url |-> <<"https://", "img-" \o tag>>]]
      [] kind = "url_nokey" -> [type |-> "image_url"]
      [] OTHER -> [type |-> "audio", audio |-> <<"wav-" \o tag>>]

ListShapes ==
    { <<>>,
      <<"text", "data", "text">>,
      <<"url", "audio", "text">>,
      <<"text_nokey", "url_nokey", "data_2commas">>,
      <<"text", "data_nocomma">> }

ContentShapes == {<<"str", <<>>>>, <<"none", <<>>>>} \cup {<<"list", l>> : l \in ListShapes}

MkContent(shape, tag) ==
    IF shape[1] = "str" THEN PyStr(<<"msg-" \o tag>>)
    ELSE IF shape[1] = "none" THEN None
    ELSE PyList([p \in 1..Len(shape[2]) |->
                    MkPart(shape[2][p], tag \o "." \o ToString(p))])

MkMessage(role, shape, m) ==
    [role |-> role, content |-> MkContent(shape, ToString(m))]

MessageLists(n) ==
    { [i \in 1..Len(f) |-> MkMessage(f[i][1], f[i][2], i)] :
        f \in UNION {[1..k -> Roles \X ContentShapes] : k \in 0..n} }

NotRun == [done |-> FALSE]

(***************************************************************************)
(* Variables a specification does not use stay at these values.            *)
(***************************************************************************)
LifeIdle ==
    /\ phase = "none"
    /\ valves = None
    /\ configured = None
    /\ pipelines = <<>>
    /\ listing = None
    /\ op = "none"
    /\ raised = "none"
    /\ calls = <<>>

PipeIdle == req = None /\ ret = None /\ genCall = None

FunIdle == fin = <<>> /\ fout = NotRun

StreamIdle ==
    /\ sResp = None
    /\ sPos = 0
    /\ sPc = "none"
    /\ sOut = <<>>
    /\ sExc = "none"
    /\ sStops = 0

(***************************************************************************)
(* SpecPrep: prepare_contents applied to every message list of the bounds  *)
(***************************************************************************)
InitPrep ==
    /\ LifeIdle /\ PipeIdle /\ StreamIdle
    /\ fin \in MessageLists(MaxMsgs)
    /\ fout = NotRun

CallPrepareContents ==
    /\ ~fout.done
    /\ fout' = [done |-> TRUE] @@ prepare_contents(fin)
    /\ UNCHANGED <<fin, lifeVars, pipeVars, streamVars>>

NextPrep == CallPrepareContents

SpecPrep == InitPrep /\ [][NextPrep]_vars

(***************************************************************************)
(* C6                                                                      *)
(***************************************************************************)
\* the strictly increasing maps of 1..n into 1..m
IncreasingMaps(n, m) ==
    {f \in [1..n -> 1..m] : \A i, j \in 1..n : i < j => f[i] < f[j]}

Range(f) == {f[i] : i \in DOMAIN f}

\* the messages and parts the translation does not skip
MessageKept(m) == m.role \in {"user", "assistant", "system"} /\ m.content.t \in {"str", "list"}
PartKept(p) == "type" \in DOMAIN p /\ p.type \in {"text", "image_url"}

\* output part o carries input part p
PartFrom(o, p) ==
    IF p.type = "text"
    THEN DOMAIN o = {"text"} /\ o.text = (IF "text" \in DOMAIN p THEN p.text ELSE <<>>)
    ELSE IF StartsWith(ImageUrlOf(p), <<"data:image">>)
    THEN /\ DOMAIN o = {"inline_data"}
         /\ o.inline_data.data # <<>>
         /\ Contains(ImageUrlOf(p), o.inline_data.data)
    ELSE DOMAIN o = {"image_url"} /\ o.image_url = ImageUrlOf(p)

\* output entry e carries input message m
EntryFrom(e, m) ==
    /\ e.role = m.role
    /\ IF m.content.t = "str"
       THEN e.parts = <<[text |-> m.content.v]>>
       ELSE \E g \in IncreasingMaps(Len(e.parts), Len(m.content.v)) :
               /\ Range(g) = {k \in 1..Len(m.content.v) : PartKept(m.content.v[k])}
               /\ \A k \in 1..Len(e.parts) : PartFrom(e.parts[k], m.content.v[g[k]])

\* C6: whenever prepare_contents returns, its entries are the input messages it
\* keeps (recognised role, str or list content), each once and in the input's
\* order; the parts of an entry are the parts it keeps of that message, each once
\* and in the message's order; and a str content has become exactly one part
\* holding that str as text.
C6_PermutationFree ==
    (fout.done /\ fout.raised = "none") =>
        \E f \in IncreasingMaps(Len(fout.contents), Len(fin)) :
            /\ Range(f) = {i \in 1..Len(fin) : MessageKept(fin[i])}
            /\ \A i \in 1..Len(fout.contents) : EntryFrom(fout.contents[i], fin[f[i]])

\* two messages translated, one a str content and one a list with several parts
C6_Witness ==
    /\ fout.done /\ fout.raised = "none"
    /\ Len(fin) = 2 /\ Len(fout.contents) = 2
    /\ fin[1].content.t = "list" /\ Len(fout.contents[1].parts) >= 2
    /\ fin[2].content.t = "str" /\ Len(fout.contents[2].parts) = 1

(***************************************************************************)
(* format_response                                                         *)
(*                                                                         *)
(* A vendor response is [candidates |-> <<...>>]; a candidate is a record  *)
(* with content (None, or [parts |-> <<...>>]) and, when the attribute     *)
(* exists, grounding_metadata (None, or [grounding_chunks,                 *)
(* web_search_queries]); a grounding chunk with a web source is            *)
(* [web |-> [uri |-> ...]].  Reading an attribute an object does not have, *)
(* or an attribute of None, raises AttributeError.                         *)
(***************************************************************************)
FormatErrorPrefix == <<"An error occurred while formatting the response: ">>

\* = where the source has +=
AssignText(acc, text) == text

\* formatted_response["response"] += part["text"]
ConcatText(acc, text) == acc \o text

\* a list of sources that puts the newest first
PrependItem(list, x) == <<x>> \o list

\* formatted_response[...].append(x)
AppendItem(list, x) == Append(list, x)

\* for part in candidate.content.parts: if "text" in part: ...
RECURSIVE TextLoop(_, _)
TextLoop(parts, acc) ==
    IF parts = <<>> THEN acc
    ELSE TextLoop(Tail(parts),
             IF "text" \in DOMAIN Head(parts) THEN ConcatText(acc, Head(parts).text) ELSE acc)

\* for chunk in grounding_metadata.grounding_chunks: append(chunk.web.uri)
RECURSIVE ChunkLoop(_, _)
ChunkLoop(chunks, r) ==
    IF chunks = <<>> THEN r
    ELSE IF "web" \notin DOMAIN Head(chunks)
    THEN [r EXCEPT !.raised = "AttributeError"]
    ELSE ChunkLoop(Tail(chunks),
             [r EXCEPT !.grounding_sources = AppendItem(@, Head(chunks).web.uri)])

\* for query in grounding_metadata.web_search_queries: append(query)
RECURSIVE QueryLoop(_, _)
QueryLoop(queries, r) ==
    IF queries = <<>> THEN r
    ELSE QueryLoop(Tail(queries),
             [r EXCEPT !.search_suggestions = AppendItem(@, Head(queries))])

\* grounding_metadata = getattr(candidate, "grounding_metadata", None)
GroundingMetadataOf(candidate) ==
    IF "grounding_metadata" \in DOMAIN candidate THEN candidate.grounding_metadata ELSE None

\* the loop over response.candidates; r is formatted_response and what was raised
RECURSIVE CandidateLoop(_, _)
CandidateLoop(candidates, r) ==
    IF candidates = <<>> THEN r
    ELSE LET candidate == Head(candidates)
             gm == GroundingMetadataOf(candidate)
         IN  IF "parts" \notin DOMAIN candidate.content
             THEN [r EXCEPT !.raised = "AttributeError"]
             ELSE LET r1 == [r EXCEPT !.response = TextLoop(candidate.content.parts, @)]
                      r2 == IF "grounding_chunks" \in DOMAIN gm
                            THEN ChunkLoop(gm.grounding_chunks, r1) ELSE r1
                      r3 == IF "grounding_chunks" \in DOMAIN gm /\ r2.raised = "none"
                            THEN QueryLoop(gm.web_search_queries, r2) ELSE r2
                  IN  IF r3.raised # "none" THEN r3
                      ELSE CandidateLoop(Tail(candidates), r3)

format_response(response) ==
    LET r == CandidateLoop(response.candidates,
                 [raised |-> "none", response |-> <<>>,
                  grounding_sources |-> <<>>, search_suggestions |-> <<>>])
    IN  IF r.raised = "none"
        THEN [response |-> r.response,
              grounding_sources |-> r.grounding_sources,
              search_suggestions |-> r.search_suggestions]
        ELSE [response |-> FormatErrorPrefix \o <<r.raised>>]

(***************************************************************************)
(* Vendor responses given to format_response                               *)
(***************************************************************************)
MaxCandidates == 2

PartShapes == {<<>>, <<"text", "text">>, <<"text", "inline_data", "text">>}

\* <<kind, grounding chunks, search queries>>
GroundingShapes ==
    { <<"absent", 0, 0>>, <<"none", 0, 0>>, <<"present", 0, 0>>,
      <<"present", 2, 1>>, <<"present", 1, 2>>, <<"chunk_without_web", 2, 1>> }

CandidateShapes ==
    {<<"blocked", <<>>, <<"absent", 0, 0>>>>}
        \cup {<<"ok", ps, g>> : ps \in PartShapes, g \in GroundingShapes}

MkGrounding(g, tag) ==
    [grounding_chunks |->
        [k \in 1..g[2] |->
            IF g[1] = "chunk_without_web" /\ k = g[2]
            THEN [retrieved_context |-> [uri |-> <<"ctx-" \o tag \o "." \o ToString(k)>>]]
            ELSE [web |-> [uri |-> <<"uri-" \o tag \o "." \o ToString(k)>>]]],
     web_search_queries |-> [k \in 1..g[3] |-> <<"query-" \o tag \o "." \o ToString(k)>>]]

MkResponsePart(kind, tag) ==
    IF kind = "text" THEN [text |-> <<"text-" \o tag>>]
    ELSE [inline_data |-> <<"blob-" \o tag>>]

MkCandidate(shape, c) ==
    LET tag == ToString(c)
        content == IF shape[1] = "blocked" THEN None
                   ELSE [parts |-> [p \in 1..Len(shape[2]) |->
                            MkResponsePart(shape[2][p], tag \o "." \o ToString(p))]]
    IN  IF shape[3][1] = "absent" THEN [content |-> content]
        ELSE [content |-> content,
              grounding_metadata |->
                  IF shape[3][1] = "none" THEN None ELSE MkGrounding(shape[3], tag)]

Responses(n) ==
    { [candidates |-> [c \in 1..Len(f) |-> MkCandidate(f[c], c)]] :
        f \in UNION {[1..k -> CandidateShapes] : k \in 0..n} }

(***************************************************************************)
(* SpecFormat: format_response applied to every response of the bounds     *)
(***************************************************************************)
InitFormat ==
    /\ LifeIdle /\ PipeIdle /\ StreamIdle
    /\ fin \in Responses(MaxCandidates)
    /\ fout = NotRun

CallFormatResponse ==
    /\ ~fout.done
    /\ fout' = [done |-> TRUE, value |-> format_response(fin)]
    /\ UNCHANGED <<fin, lifeVars, pipeVars, streamVars>>

NextFormat == CallFormatResponse

SpecFormat == InitFormat /\ [][NextFormat]_vars

(***************************************************************************)
(* C9, C10                                                                 *)
(***************************************************************************)
\* the concatenation of a sequence of sequences
RECURSIVE Flatten(_)
Flatten(ss) == IF ss = <<>> THEN <<>> ELSE Head(ss) \o Flatten(Tail(ss))

\* a response every attribute read of format_response finds
WellFormed(response) ==
    \A c \in 1..Len(response.candidates) :
        LET cand == response.candidates[c] IN
        /\ "parts" \in DOMAIN cand.content
        /\ ("grounding_metadata" \in DOMAIN cand
                /\ "grounding_chunks" \in DOMAIN cand.grounding_metadata)
            => \A k \in 1..Len(cand.grounding_metadata.grounding_chunks) :
                   "web" \in DOMAIN cand.grounding_metadata.grounding_chunks[k]

HasGrounding(cand) ==
    "grounding_metadata" \in DOMAIN cand /\ cand.grounding_metadata # None

TextsOf(cand) ==
    [p \in 1..Len(cand.content.parts) |->
        IF "text" \in DOMAIN cand.content.parts[p] THEN cand.content.parts[p].text ELSE <<>>]

UrisOf(cand) ==
    IF HasGrounding(cand)
    THEN [k \in 1..Len(cand.grounding_metadata.grounding_chunks) |->
             cand.grounding_metadata.grounding_chunks[k].web.uri]
    ELSE <<>>

QueriesOf(cand) ==
    IF HasGrounding(cand) THEN cand.grounding_metadata.web_search_queries ELSE <<>>

\* C9: for a vendor response whose candidates all have content, the response
\* string format_response returns is the concatenation of every text part of
\* every candidate, candidate by candidate and part by part, nothing in between.
C9_ResponseIsConcatenation ==
    (fout.done /\ "candidates" \in DOMAIN fin /\ WellFormed(fin)) =>
        fout.value.response =
            Flatten([c \in 1..Len(fin.candidates) |-> Flatten(TextsOf(fin.candidates[c]))])

\* two candidates of two text parts each: all four parts, in order
C9_Witness ==
    /\ fout.done /\ "candidates" \in DOMAIN fin /\ WellFormed(fin)
    /\ Len(fin.candidates) = 2
    /\ \A c \in 1..2 :
          /\ Len(fin.candidates[c].content.parts) = 2
          /\ \A p \in 1..2 : "text" \in DOMAIN fin.candidates[c].content.parts[p]
    /\ Len(fout.value.response) = 4

\* C10: for a vendor response whose grounding chunks are all web chunks,
\* grounding_sources holds the web URI of every chunk and search_suggestions
\* every query, candidate by candidate and in each candidate's order (so N and
\* M entries); a candidate without grounding metadata adds nothing.
C10_GroundingInOrder ==
    (fout.done /\ "candidates" \in DOMAIN fin /\ WellFormed(fin)) =>
        /\ fout.value.grounding_sources =
              Flatten([c \in 1..Len(fin.candidates) |-> UrisOf(fin.candidates[c])])
        /\ fout.value.search_suggestions =
              Flatten([c \in 1..Len(fin.candidates) |-> QueriesOf(fin.candidates[c])])
        /\ Len(fout.value.grounding_sources) =
              Len(Flatten([c \in 1..Len(fin.candidates) |->
                     IF HasGrounding(fin.candidates[c])
                     THEN fin.candidates[c].grounding_metadata.grounding_chunks ELSE <<>>]))

\* two candidates with grounding metadata: three chunks and three queries
C10_Witness ==
    /\ fout.done /\ "candidates" \in DOMAIN fin /\ WellFormed(fin)
    /\ Len(fin.candidates) = 2
    /\ \A c \in 1..2 : HasGrounding(fin.candidates[c])
    /\ Len(fout.value.grounding_sources) = 3
    /\ Len(fout.value.search_suggestions) = 3

(***************************************************************************)
(* stream_response: a generator.  The vendor iterator sResp hands out its  *)
(* chunks in order and then either ends or raises; the consumer drives the *)
(* generator one next() at a time.  sPc is where the generator stands:     *)
(* "start" (created, no code run yet), "yield_text" (suspended at the      *)
(* yield of the loop), "yield_error" (suspended at the yield of the        *)
(* handler), "done" (returned).                                            *)
(***************************************************************************)
StreamErrorPrefix == <<"An error occurred during streaming: ">>

\* no try around the loop: the vendor's exception reaches the consumer
PropagateError(e) == [pc |-> "done", yielded |-> <<>>, exc |-> e, stop |-> FALSE]

\* except Exception as e: yield f"An error occurred during streaming: {str(e)}"
ExceptHandler(e) ==
    [pc |-> "yield_error", yielded |-> <<StreamErrorPrefix \o <<e>>>>,
     exc |-> "none", stop |-> FALSE]

\* the loop from chunk pos + 1 to the next yield, the end or the exception
RECURSIVE ChunkIteration(_, _)
ChunkIteration(resp, pos) ==
    IF pos < Len(resp.chunks)
    THEN IF resp.chunks[pos + 1].text # <<>>
         THEN [pc |-> "yield_text", yielded |-> <<resp.chunks[pos + 1].text>>,
               exc |-> "none", stop |-> FALSE, pos |-> pos + 1]
         ELSE ChunkIteration(resp, pos + 1)
    ELSE IF resp.end = "stop"
    THEN [pc |-> "done", yielded |-> <<>>, exc |-> "none", stop |-> TRUE, pos |-> pos]
    ELSE [pos |-> pos] @@ ExceptHandler(resp.end)

\* one next() on the generator
Resume(resp, pos, pc) ==
    IF pc \in {"start", "yield_text"} THEN ChunkIteration(resp, pos)
    ELSE [pc |-> "done", yielded |-> <<>>, exc |-> "none", stop |-> TRUE, pos |-> pos]

MaxChunks == 4
MaxStops == 2

ChunkStreams(n) ==
    { [chunks |-> [k \in 1..Len(f) |->
                      [text |-> IF f[k] = "text" THEN <<"chunk-" \o ToString(k)>> ELSE <<>>]],
       end |-> e] :
        f \in UNION {[1..k -> {"text", "empty"}] : k \in 0..n},
        e \in {"stop", "ServiceUnavailable"} }

InitStream ==
    /\ LifeIdle /\ PipeIdle /\ FunIdle
    /\ sResp \in ChunkStreams(MaxChunks)
    /\ sPos = 0
    /\ sPc = "none"
    /\ sOut = <<>>
    /\ sExc = "none"
    /\ sStops = 0

\* stream_response(response): creates the generator and runs none of its code
CallStreamResponse ==
    /\ sPc = "none"
    /\ sPc' = "start"
    /\ UNCHANGED <<sResp, sPos, sOut, sExc, sStops, lifeVars, pipeVars, funVars>>

\* the consumer asks for the next fragment
NextFragment ==
    /\ sPc # "none"
    /\ sStops < MaxStops
    /\ LET r == Resume(sResp, sPos, sPc) IN
       /\ sPc' = r.pc
       /\ sPos' = r.pos
       /\ sOut' = sOut \o r.yielded
       /\ sExc' = r.exc
       /\ sStops' = IF r.stop THEN sStops + 1 ELSE sStops
    /\ UNCHANGED <<sResp, lifeVars, pipeVars, funVars>>

NextStream == CallStreamResponse \/ NextFragment

SpecStream == InitStream /\ [][NextStream]_vars

(***************************************************************************)
(* C8                                                                      *)
(***************************************************************************)
NonEmptyText(chunk) == chunk.text # <<>>

\* what the consumer is to see of a vendor stream, start to end
ExpectedFragments(resp) ==
    LET texts == SelectSeq(resp.chunks, NonEmptyText) IN
    [i \in 1..Len(texts) |-> texts[i].text]
        \o (IF resp.end = "stop" THEN <<>>
            ELSE <<<<"An error occurred during streaming: ", resp.end>>>>)

\* C8: the consumer of stream_response receives, in vendor order, the text of
\* every chunk with non-empty text; when the vendor stream raises after k chunks
\* it receives the fragments of those k chunks, then one error-text fragment,
\* then exhaustion; nothing follows exhaustion and no exception reaches it.
C8_StreamFragments ==
    sPc # "none" =>
        /\ sExc = "none"
        /\ Len(sOut) <= Len(ExpectedFragments(sResp))
        /\ sOut = SubSeq(ExpectedFragments(sResp), 1, Len(sOut))
        /\ sStops > 0 => sOut = ExpectedFragments(sResp)

\* the 3rd chunk raises: two valid fragments, one error fragment, exhaustion
C8_Witness ==
    /\ Len(sResp.chunks) = 2 /\ sResp.end # "stop"
    /\ \A k \in 1..2 : sResp.chunks[k].text # <<>>
    /\ sStops = MaxStops
    /\ Len(sOut) = 3
    /\ sOut[3][1] = "An error occurred during streaming: "

(***************************************************************************)
(* The Pipeline object: valves, model discovery, lifecycle hooks           *)
(***************************************************************************)
DefaultThreshold == "0.3"

\* Valves(GOOGLE_API_KEY=key) with the defaults of the other fields
DefaultValves(key) ==
    [GOOGLE_API_KEY |-> key,
     USE_PERMISSIVE_SAFETY |-> FALSE,
     GROUNDING_ENABLED |-> TRUE,
     DYNAMIC_THRESHOLD |-> DefaultThreshold]

\* a vendor call, with the value of GOOGLE_API_KEY it was made under
VendorCall(api, v) == [api |-> api, key |-> v.GOOGLE_API_KEY]

NoModelsSentinel ==
    [id |-> <<"no_models_available">>,
     name |-> <<"No available models found. Please check your API key and permissions.">>]

ErrorSentinel ==
    [id |-> <<"error">>,
     name |-> <<"Could not fetch models from Google. Please update the API Key in the valves.">>]

Slash == "/"
ModelsNamespace == <<"models", "/">>

\* model.name.split("/")[-1]
ModelIdOf(name) == LET pieces == Split(name, Slash) IN pieces[Len(pieces)]

\* the condition of the comprehension
Generates(model) ==
    /\ "generateContent" \in model.supported_generation_methods
    /\ StartsWith(model.name, ModelsNamespace)

\* the comprehension over the vendor's models
RECURSIVE Descriptors(_)
Descriptors(models) ==
    IF models = <<>> THEN <<>>
    ELSE (IF Generates(Head(models))
          THEN <<[id |-> ModelIdOf(Head(models).name), name |-> Head(models).display_name]>>
          ELSE <<>>) \o Descriptors(Tail(models))

\* an empty list is left as it is
KeepEmpty(ps) == ps

\* if not self.pipelines: self.pipelines = [sentinel]
OrNoModels(ps) == IF ps = <<>> THEN <<NoModelsSentinel>> ELSE ps

\* update_pipelines, given what genai.list_models() does: [raised, pipelines]
update_pipelines(l) ==
    IF l.raised # "none"
    THEN [raised |-> "none", pipelines |-> <<ErrorSentinel>>]
    ELSE [raised |-> "none", pipelines |-> OrNoModels(Descriptors(l.models))]

(***************************************************************************)
(* pipe                                                                    *)
(***************************************************************************)
NamespacePrefix == <<"g", "o", "o", "g", "l", "e", "_", "g", "e", "n", "a", "i", ".">>
FamilyPrefix == <<"g", "e", "m", "i", "n", "i", "-">>
SystemInstructionFamily == <<"g", "e", "m", "i", "n", "i", "-", "1", ".", "5">>
Dot == "."

DefaultTemperature == "0.7"
DefaultTopP == "0.9"
DefaultTopK == 40
DefaultMaxOutputTokens == 8192

KeyNotSet == PyStr(<<"Error: GOOGLE_API_KEY is not set">>)
InvalidModelPrefix == <<"Error: Invalid model name format: ">>
PipeErrorPrefix == <<"An error occurred: ">>

\* body.get(key, default)
BodyGet(body, key, default) == IF key \in DOMAIN body THEN body[key] ELSE default

\* the two strips of the model id
StripModelId(id) ==
    LStrip(IF StartsWith(id, NamespacePrefix)
           THEN SubSeq(id, Len(NamespacePrefix) + 1, Len(id)) ELSE id, Dot)

\* a family test that looks for the family name anywhere in the id
NamesFamily(id) == Contains(id, SubSeq(FamilyPrefix, 1, Len(FamilyPrefix) - 1))

\* model_id.startswith("gemini-")
IsFamily(id) == StartsWith(id, FamilyPrefix)

\* next((msg["content"] for msg in messages if msg.get("role") == "system"), None):
\* [raised, value]
RECURSIVE SystemMessage(_)
SystemMessage(messages) ==
    IF messages = <<>> THEN [raised |-> "none", value |-> None]
    ELSE IF "role" \in DOMAIN Head(messages) /\ Head(messages).role = "system"
    THEN IF "content" \in DOMAIN Head(messages)
         THEN [raised |-> "none", value |-> Head(messages).content]
         ELSE [raised |-> "KeyError", value |-> None]
    ELSE SystemMessage(Tail(messages))

GenerationConfig(body) ==
    [temperature |-> BodyGet(body, "temperature", DefaultTemperature),
     top_p |-> BodyGet(body, "top_p", DefaultTopP),
     top_k |-> BodyGet(body, "top_k", DefaultTopK),
     max_output_tokens |-> BodyGet(body, "max_tokens", DefaultMaxOutputTokens),
     stop_sequences |-> BodyGet(body, "stop", <<>>)]

prepare_tools(v) ==
    IF v.GROUNDING_ENABLED
    THEN <<[google_search_retrieval |->
               [mode |-> "MODE_DYNAMIC", dynamic_threshold |-> v.DYNAMIC_THRESHOLD]]>>
    ELSE <<>>

HarmCategories ==
    {"HARM_CATEGORY_HARASSMENT", "HARM_CATEGORY_HATE_SPEECH",
     "HARM_CATEGORY_SEXUALLY_EXPLICIT", "HARM_CATEGORY_DANGEROUS_CONTENT"}

PyDict(d) == [t |-> "dict", v |-> d]

\* safety settings in which the body's value, when there is one, wins
BodyFirstSafetySettings(v, body) ==
    IF "safety_settings" \in DOMAIN body THEN body.safety_settings
    ELSE IF v.USE_PERMISSIVE_SAFETY
    THEN PyDict([c \in HarmCategories |-> "BLOCK_NONE"])
    ELSE None

get_safety_settings(v, body) ==
    IF v.USE_PERMISSIVE_SAFETY
    THEN PyDict([c \in HarmCategories |-> "BLOCK_NONE"])
    ELSE BodyGet(body, "safety_settings", None)

\* the outcome of a stretch of pipe: what it raised, what it returned, the
\* vendor calls it made and the arguments of generate_content
Outcome(exc, value, vendorCalls, gen) ==
    [raised |-> exc, ret |-> value, calls |-> vendorCalls, genCall |-> gen]

\* the statements of the try block, in order.  vendor.fault names the vendor
\* entry point that raises in this request ("none": none does), vendor.response
\* is what generate_content returns without streaming, vendor.chunks with it.
TryBlock(v, model_id, messages, body, vendor) ==
    IF model_id.t # "str" THEN Outcome("AttributeError", None, <<>>, None)
    ELSE LET id == StripModelId(model_id.v) IN
    IF ~IsFamily(id) THEN Outcome("none", PyStr(InvalidModelPrefix \o id), <<>>, None)
    ELSE LET stream_mode == BodyGet(body, "stream", FALSE)
             system_message == SystemMessage(messages)
             contents == prepare_contents(messages)
             tools == prepare_tools(v)
             modelCall == <<VendorCall("GenerativeModel", v)>>
             genCalls == modelCall \o <<VendorCall("generate_content", v)>>
             gen == [model_name |-> id,
                     generation_config |-> GenerationConfig(body),
                     tools |-> tools,
                     system_instruction |->
                         IF Contains(id, SystemInstructionFamily)
                                /\ Truthy(system_message.value)
                         THEN system_message.value ELSE None,
                     prompt |-> contents.contents,
                     safety_settings |-> get_safety_settings(v, body),
                     stream |-> stream_mode]
         IN
    IF system_message.raised # "none" THEN Outcome(system_message.raised, None, <<>>, None)
    ELSE IF contents.raised # "none" THEN Outcome(contents.raised, None, <<>>, None)
    ELSE IF vendor.fault = "GenerationConfig" THEN Outcome("TypeError", None, <<>>, None)
    ELSE IF vendor.fault = "Tool" /\ tools # <<>> THEN Outcome("TypeError", None, <<>>, None)
    ELSE IF vendor.fault = "GenerativeModel"
    THEN Outcome("GoogleAPIError", None, modelCall, None)
    ELSE IF vendor.fault = "generate_content"
    THEN Outcome("GoogleAPIError", None, genCalls, gen)
    ELSE IF stream_mode
    THEN Outcome("none", [t |-> "generator", response |-> vendor.chunks], genCalls, gen)
    ELSE Outcome("none", PyDict(format_response(vendor.response)), genCalls, gen)

\* a handler that lets the exception through
Reraise(r) == r

\* except Exception as e: return f"An error occurred: {str(e)}"
CatchAll(r) ==
    IF r.raised = "none" THEN r
    ELSE [r EXCEPT !.raised = "none", !.ret = PyStr(PipeErrorPrefix \o <<r.raised>>)]

pipe(v, model_id, messages, body, vendor) ==
    IF v.GOOGLE_API_KEY = "" THEN Outcome("none", KeyNotSet, <<>>, None)
    ELSE CatchAll(TryBlock(v, model_id, messages, body, vendor))

(***************************************************************************)
(* What the host and the vendor supply                                     *)
(***************************************************************************)
MaxModels == 2

\* GOOGLE_API_KEY in the environment of the process that constructs the object
EnvKeys == {[set |-> FALSE], [set |-> TRUE, value |-> ""], [set |-> TRUE, value |-> "key-1"]}

\* the values the host may assign to self.valves
HostValves ==
    { [DefaultValves(k) EXCEPT !.USE_PERMISSIVE_SAFETY = p, !.GROUNDING_ENABLED = g] :
        k \in {"", "key-1"}, p \in BOOLEAN, g \in BOOLEAN }

VendorModels ==
    { [name |-> <<"models", "/", "gemini-1.5-pro">>,
       display_name |-> <<"Gemini 1.5 Pro">>,
       supported_generation_methods |-> {"generateContent", "countTokens"}],
      [name |-> <<"models", "/", "embedding-001">>,
       display_name |-> <<"Embedding 001">>,
       supported_generation_methods |-> {"embedContent"}],
      [name |-> <<"tunedModels", "/", "my-model">>,
       display_name |-> <<"My model">>,
       supported_generation_methods |-> {"generateContent"}] }

\* what genai.list_models() may do: raise, or return at most n models
Listings(n) ==
    {[raised |-> "GoogleAPIError", models |-> <<>>]}
        \cup { [raised |-> "none", models |-> ms] :
                 ms \in UNION {[1..k -> VendorModels] : k \in 0..n} }

ModelIds ==
    { None,
      PyStr(<<"g", "e", "m", "i", "n", "i", "-", "1", ".", "5", "-", "p", "r", "o">>),
      PyStr(<<"g", "o", "o", "g", "l", "e", "_", "g", "e", "n", "a", "i", ".", "g", "e", "m", "i", "n", "i", "-", "1", ".", "5", "-", "p", "r", "o">>),
      PyStr(<<"g", "o", "o", "g", "l", "e", "_", "g", "e", "n", "a", "i", ".", ".", "g", "e", "m", "i", "n", "i", "-", "p", "r", "o">>),
      PyStr(<<"g", "o", "o", "g", "l", "e", "_", "g", "e", "n", "a", "i", ".", "g", "o", "o", "g", "l", "e", "_", "g", "e", "n", "a", "i", ".", "g", "e", "m", "i", "n", "i", "-", "p", "r", "o">>),
      PyStr(<<"g", "p", "t", "-", "4">>),
      PyStr(<<"g", "o", "o", "g", "l", "e", "_", "g", "e", "n", "a", "i", ".", ".", "l", "l", "a", "m", "a">>),
      PyStr(<<"g", "e", "m", "i", "n", "i">>),
      PyStr(<<"m", "y", "-", "g", "e", "m", "i", "n", "i", "-", "1", ".", "5">>),
      PyStr(<<>>) }

UserTurn == [role |-> "user", content |-> PyStr(<<"Who won Wimbledon this year?">>)]
SystemTurn(text) == [role |-> "system", content |-> PyStr(text)]

PipeMessages ==
    { <<UserTurn>>,
      <<SystemTurn(<<"Be brief.">>), UserTurn>>,
      <<UserTurn, SystemTurn(<<"Be brief.">>), SystemTurn(<<"Be kind.">>)>>,
      <<SystemTurn(<<>>), UserTurn>>,
      <<[role |-> "system"], UserTurn>>,
      <<[role |-> "user", content |-> PyList(<<MkPart("text", "1"), MkPart("data_nocomma", "2")>>)]>>,
      <<[role |-> "tool", content |-> PyStr(<<"42">>)],
        [role |-> "user", content |-> PyList(<<MkPart("text", "1"), MkPart("data", "2")>>)]>> }

BodySafety == PyDict([c \in {"HARM_CATEGORY_HARASSMENT"} |-> "BLOCK_ONLY_HIGH"])

Bodies ==
    { [k \in {} |-> TRUE],
      [stream |-> FALSE, temperature |-> "0.7", top_p |-> "0.9", top_k |-> 40,
       max_tokens |-> 1500, stop |-> <<"\n">>],
      [stream |-> TRUE],
      [stream |-> FALSE, safety_settings |-> BodySafety],
      [stream |-> TRUE, safety_settings |-> BodySafety] }

OneResponse(shapes) == [candidates |-> [c \in 1..Len(shapes) |-> MkCandidate(shapes[c], c)]]

GoodResponse ==
    OneResponse(<< <<"ok", <<"text", "text">>, <<"present", 2, 1>>>>,
                   <<"ok", <<"text", "inline_data", "text">>, <<"absent", 0, 0>>>> >>)

BlockedResponse == OneResponse(<< <<"blocked", <<>>, <<"absent", 0, 0>>>> >>)

GoodChunks ==
    [chunks |-> <<[text |-> <<"chunk-1">>], [text |-> <<>>], [text |-> <<"chunk-3">>]>>,
     end |-> "stop"]

VendorFaults == {"GenerationConfig", "Tool", "GenerativeModel", "generate_content"}

Vendors ==
    { [fault |-> f, response |-> GoodResponse, chunks |-> GoodChunks] :
        f \in VendorFaults \cup {"none"} }
      \cup {[fault |-> "none", response |-> BlockedResponse, chunks |-> GoodChunks]}

(***************************************************************************)
(* Operations of the host on the Pipeline object                           *)
(***************************************************************************)
\* genai.configure(api_key=...); self.update_pipelines()
Refresh(v, l) ==
    LET r == update_pipelines(l) IN
    /\ configured' = PyStr(<<v.GOOGLE_API_KEY>>)
    /\ pipelines' = r.pipelines
    /\ listing' = l
    /\ raised' = r.raised
    /\ calls' = <<VendorCall("configure", v), VendorCall("list_models", v)>>

\* Pipeline().  Valves() is built without arguments; its credential is taken
\* to be the one of the process environment, as the header
\* (environment_variables) and the field (env="GOOGLE_API_KEY") declare.  A
\* required field without a value makes Valves() raise before anything else
\* runs; an empty value reaches the test of line 49.
Construct ==
    /\ phase = "none"
    /\ op' = "__init__"
    /\ \E env \in EnvKeys :
          IF ~env.set
          THEN /\ phase' = "failed"
               /\ raised' = "ValidationError"
               /\ UNCHANGED <<valves, configured, pipelines, listing, calls>>
          ELSE IF env.value = ""
          THEN /\ phase' = "failed"
               /\ valves' = DefaultValves(env.value)
               /\ raised' = "ValueError"
               /\ UNCHANGED <<configured, pipelines, listing, calls>>
          ELSE /\ phase' = "live"
               /\ valves' = DefaultValves(env.value)
               /\ \E l \in Listings(MaxModels) : Refresh(valves', l)
    /\ UNCHANGED <<pipeVars, funVars, streamVars>>

\* the host assigns self.valves
SetValves(vs) ==
    /\ phase = "live"
    /\ \E v \in vs : valves' = v
    /\ op' = "set_valves"
    /\ raised' = "none"
    /\ calls' = <<>>
    /\ UNCHANGED <<phase, configured, pipelines, listing, pipeVars, funVars, streamVars>>

on_startup ==
    /\ phase = "live"
    /\ op' = "on_startup"
    /\ \E l \in Listings(MaxModels) : Refresh(valves, l)
    /\ UNCHANGED <<phase, valves, pipeVars, funVars, streamVars>>

on_shutdown ==
    /\ phase = "live"
    /\ op' = "on_shutdown"
    /\ raised' = "none"
    /\ calls' = <<>>
    /\ UNCHANGED <<phase, valves, configured, pipelines, listing, pipeVars, funVars, streamVars>>

on_valves_updated ==
    /\ phase = "live"
    /\ op' = "on_valves_updated"
    /\ IF valves.GOOGLE_API_KEY = ""
       THEN /\ raised' = "ValueError"
            /\ calls' = <<>>
            /\ UNCHANGED <<configured, pipelines, listing>>
       ELSE \E l \in Listings(MaxModels) : Refresh(valves, l)
    /\ UNCHANGED <<phase, valves, pipeVars, funVars, streamVars>>

\* the host calls update_pipelines itself
CallUpdatePipelines ==
    /\ phase = "live"
    /\ op' = "update_pipelines"
    /\ \E l \in Listings(MaxModels) :
          LET r == update_pipelines(l) IN
          /\ pipelines' = r.pipelines
          /\ listing' = l
          /\ raised' = r.raised
    /\ calls' = <<VendorCall("list_models", valves)>>
    /\ UNCHANGED <<phase, valves, configured, pipeVars, funVars, streamVars>>

\* pipe(user_message, model_id, messages, body), one request at a time: the
\* host holds no earlier result
Pipe(ids, msgs, bodies, vendors) ==
    /\ phase = "live"
    /\ ret = None
    /\ op' = "pipe"
    /\ \E model_id \in ids, messages \in msgs, body \in bodies, vendor \in vendors :
          LET r == pipe(valves, model_id, messages, body, vendor) IN
          /\ req' = [t |-> "request", valves |-> valves, model_id |-> model_id,
                     messages |-> messages, body |-> body, vendor |-> vendor]
          /\ raised' = r.raised
          /\ ret' = IF r.raised = "none" THEN r.ret ELSE [t |-> "raised"]
          /\ calls' = r.calls
          /\ genCall' = r.genCall
    /\ UNCHANGED <<phase, valves, configured, pipelines, listing, funVars, streamVars>>

\* the host is done with the result of the request
TakeResult ==
    /\ ret # None
    /\ req' = None /\ ret' = None /\ genCall' = None
    /\ UNCHANGED <<lifeVars, funVars, streamVars>>

(***************************************************************************)
(* Spec: the life of the object, from construction on                      *)
(***************************************************************************)
LifeModelIds == {PyStr(FamilyPrefix \o <<"p", "r", "o">>), PyStr(<<"g", "p", "t">>)}
LifeVendors == {[fault |-> "none", response |-> GoodResponse, chunks |-> GoodChunks]}

Init == LifeIdle /\ PipeIdle /\ FunIdle /\ StreamIdle

LifeValves ==
    {DefaultValves(""), DefaultValves("key-1"),
     [DefaultValves("key-1") EXCEPT !.USE_PERMISSIVE_SAFETY = TRUE]}

LifeSetValves == SetValves(LifeValves)

LifePipe == Pipe(LifeModelIds, {<<UserTurn>>}, {[stream |-> FALSE]}, LifeVendors)

Next ==
    \/ Construct
    \/ LifeSetValves
    \/ on_startup
    \/ on_shutdown
    \/ on_valves_updated
    \/ CallUpdatePipelines
    \/ LifePipe
    \/ TakeResult

Spec == Init /\ [][Next]_vars

(***************************************************************************)
(* SpecPipe: requests to an object constructed with a credential           *)
(***************************************************************************)
InitPipe ==
    /\ phase = "live"
    /\ valves = DefaultValves("key-1")
    /\ configured = PyStr(<<"key-1">>)
    /\ listing = [raised |-> "none", models |-> <<>>]
    /\ pipelines = update_pipelines(listing).pipelines
    /\ op = "__init__"
    /\ raised = "none"
    /\ calls = <<VendorCall("configure", valves), VendorCall("list_models", valves)>>
    /\ PipeIdle /\ FunIdle /\ StreamIdle

FullPipe == Pipe(ModelIds, PipeMessages, Bodies, Vendors)

FullSetValves == SetValves(HostValves)

NextPipe == FullSetValves \/ FullPipe \/ TakeResult

SpecPipe == InitPipe /\ [][NextPipe]_vars

(***************************************************************************)
(* C1, C2                                                                  *)
(***************************************************************************)
\* a vendor model that generates content and lives in the models/ namespace
RealModel(m) ==
    /\ "generateContent" \in m.supported_generation_methods
    /\ Len(m.name) >= 2 /\ m.name[1] = "models" /\ m.name[2] = "/"

\* C1: on a constructed object, whatever the vendor's model-list query did the
\* last time (returned any list, or raised), update_pipelines raised nothing and
\* self.pipelines is not empty: one descriptor per real model of the list, in
\* the list's order, or the one sentinel "no_models_available" when the list has
\* no real model, or the one sentinel "error" when the query raised.
C1_ModelListNeverEmpty ==
    phase = "live" =>
        /\ pipelines # <<>>
        /\ op \in {"update_pipelines", "on_startup", "__init__"} => raised = "none"
        /\ raised \in {"none", "ValueError"}
        /\ IF listing.raised # "none"
           THEN Len(pipelines) = 1 /\ pipelines[1].id = <<"error">>
           ELSE LET real == SelectSeq(listing.models, RealModel) IN
                IF real = <<>>
                THEN Len(pipelines) = 1 /\ pipelines[1].id = <<"no_models_available">>
                ELSE /\ Len(pipelines) = Len(real)
                     /\ \A i \in 1..Len(real) :
                           /\ pipelines[i].id = <<real[i].name[Len(real[i].name)]>>
                           /\ pipelines[i].name = real[i].display_name

\* the vendor returned models, none of them real: the sentinel stands in
C1_Witness ==
    /\ phase = "live" /\ op = "update_pipelines"
    /\ listing.raised = "none" /\ Len(listing.models) = 2
    /\ Len(pipelines) = 1 /\ pipelines[1].id = <<"no_models_available">>

\* C2: construction, on_startup, on_valves_updated and pipe make no vendor call
\* while GOOGLE_API_KEY is empty, and a construction that fails has made none.
C2_CredentialBeforeVendorCall ==
    /\ op \in {"__init__", "on_startup", "on_valves_updated", "pipe"} =>
          \A i \in 1..Len(calls) : calls[i].key # ""
    /\ phase = "failed" => calls = <<>>

(***************************************************************************)
(* C3, C4, C5, C7                                                          *)
(***************************************************************************)
Returned == req # None

\* the model id without the namespace prefix and the dots that follow it
StrippedOf(id) ==
    LET ns == <<"g", "o", "o", "g", "l", "e", "_", "g", "e", "n", "a", "i", ".">>
        a == IF Len(id) >= Len(ns) /\ SubSeq(id, 1, Len(ns)) = ns
             THEN SubSeq(id, Len(ns) + 1, Len(id)) ELSE id
        dots == CHOOSE k \in 0..Len(a) :
                    /\ \A i \in 1..k : a[i] = "."
                    /\ k = Len(a) \/ a[k + 1] # "."
    IN  SubSeq(a, dots + 1, Len(a))

InFamily(id) ==
    LET fam == <<"g", "e", "m", "i", "n", "i", "-">>
    IN  Len(id) >= Len(fam) /\ SubSeq(id, 1, Len(fam)) = fam

ErrorString(x) ==
    /\ x.t = "str"
    /\ x.v # <<>>
    /\ x.v[1] \in {"Error: GOOGLE_API_KEY is not set",
                   "Error: Invalid model name format: ",
                   "An error occurred: "}

ErrorRecord(x) ==
    /\ x.t = "dict"
    /\ DOMAIN x.v = {"response"}
    /\ x.v.response # <<>>
    /\ x.v.response[1] = "An error occurred while formatting the response: "

SystemIndexes(messages) ==
    {i \in 1..Len(messages) :
        "role" \in DOMAIN messages[i] /\ messages[i].role = "system"}

FirstSystem(messages) ==
    messages[CHOOSE i \in SystemIndexes(messages) :
                 \A j \in SystemIndexes(messages) : i <= j]

BadDataUri(part) ==
    /\ "type" \in DOMAIN part /\ part.type = "image_url"
    /\ ImageUrlOf(part) # <<>> /\ ImageUrlOf(part)[1] = "data:image"
    /\ \A k \in 1..Len(ImageUrlOf(part)) : ImageUrlOf(part)[k] # ","

\* something goes wrong while the request is served
Fails(r) ==
    \/ r.model_id.t # "str"
    \/ /\ InFamily(StrippedOf(r.model_id.v))
       /\ \/ r.vendor.fault \in {"GenerationConfig", "GenerativeModel", "generate_content"}
          \/ r.vendor.fault = "Tool" /\ r.valves.GROUNDING_ENABLED
          \/ /\ SystemIndexes(r.messages) # {}
             /\ "content" \notin DOMAIN FirstSystem(r.messages)
          \/ \E i \in 1..Len(r.messages) :
                /\ "content" \in DOMAIN r.messages[i]
                /\ r.messages[i].content.t = "list"
                /\ r.messages[i].role \in {"user", "assistant", "system"}
                /\ \E k \in 1..Len(r.messages[i].content.v) :
                      BadDataUri(r.messages[i].content.v[k])
          \/ /\ ~("stream" \in DOMAIN r.body /\ r.body.stream)
             /\ ~WellFormed(r.vendor.response)

\* C3: pipe raises nothing to the host; it returns a str, a result record or a
\* generator, and when something went wrong while the request was served (a
\* model id that is no str, a system message without content, a malformed data
\* URI, a vendor entry point that raises, a response that cannot be formatted)
\* the value is an error-prefixed str or a record whose response is the error.
C3_PipeNeverThrows ==
    /\ op = "pipe" => raised = "none"
    /\ Returned =>
          /\ ret.t \in {"str", "dict", "generator"}
          /\ Fails(req) => ErrorString(ret) \/ ErrorRecord(ret)

\* the vendor's generate_content raised and pipe returned the error as a str
C3_Witness ==
    /\ Returned /\ op = "pipe"
    /\ req.valves.GOOGLE_API_KEY # ""
    /\ req.vendor.fault = "generate_content"
    /\ [api |-> "generate_content", key |-> "key-1"] \in {calls[i] : i \in 1..Len(calls)}
    /\ ret.t = "str" /\ ret.v[1] = "An error occurred: "

InvalidFamily(r) == r.model_id.t = "str" /\ ~InFamily(StrippedOf(r.model_id.v))

\* C4 as claimed: for a model id outside the family, pipe returns an error str
\* containing the stripped id and makes no vendor call.
C4_InvalidIdNamed ==
    (op = "pipe" /\ Returned /\ InvalidFamily(req)) =>
        /\ ret.t = "str"
        /\ Contains(ret.v, StrippedOf(req.model_id.v))
        /\ calls = <<>>

\* C4 amended: for a model id outside the family pipe makes no vendor call; it
\* returns an error str containing the stripped id when GOOGLE_API_KEY is not
\* empty, and the str "Error: GOOGLE_API_KEY is not set" when it is.
C4_InvalidIdNamedWithKey ==
    (op = "pipe" /\ Returned /\ InvalidFamily(req)) =>
        /\ calls = <<>>
        /\ genCall = None
        /\ ret.t = "str"
        /\ IF req.valves.GOOGLE_API_KEY # ""
           THEN /\ ret.v[1] = "Error: Invalid model name format: "
                /\ Contains(ret.v, StrippedOf(req.model_id.v))
                /\ Len(ret.v) = 1 + Len(StrippedOf(req.model_id.v))
           ELSE ret.v = <<"Error: GOOGLE_API_KEY is not set">>

\* "google_genai..llama" with a credential: the error names "llama"
C4_Witness ==
    /\ op = "pipe" /\ Returned /\ InvalidFamily(req)
    /\ req.valves.GOOGLE_API_KEY # ""
    /\ Len(StrippedOf(req.model_id.v)) = 5
    /\ Len(req.model_id.v) > 5
    /\ Contains(ret.v, StrippedOf(req.model_id.v))

\* C5: when the messages hold a system message (here: one with a non-empty
\* content) and the model id contains "gemini-1.5", the first system message is
\* the system instruction of the vendor call and the contents of that call hold
\* no entry for it.
C5_SystemMessageNotATurn ==
    (/\ op = "pipe" /\ Returned /\ genCall # None
     /\ \A i \in SystemIndexes(req.messages) :
           "content" \in DOMAIN req.messages[i] /\ Truthy(req.messages[i].content)
     /\ Contains(req.model_id.v, <<"g", "e", "m", "i", "n", "i", "-", "1", ".", "5">>)
     /\ SystemIndexes(req.messages) # {}) =>
        LET m == FirstSystem(req.messages) IN
        /\ genCall.system_instruction = m.content
        /\ \A i \in 1..Len(genCall.prompt) :
              ~(/\ genCall.prompt[i].role = "system"
                /\ genCall.prompt[i].parts = <<[text |-> m.content.v]>>)

\* C7: the safety settings handed to generate_content are the four harm
\* categories at BLOCK_NONE when USE_PERMISSIVE_SAFETY is set, whatever the body
\* holds, and otherwise the body's safety_settings, or None when it has none.
C7_SafetySettings ==
    (Returned /\ genCall # None) =>
        IF req.valves.USE_PERMISSIVE_SAFETY
        THEN /\ genCall.safety_settings.t = "dict"
             /\ DOMAIN genCall.safety_settings.v =
                   {"HARM_CATEGORY_HARASSMENT", "HARM_CATEGORY_HATE_SPEECH",
                    "HARM_CATEGORY_SEXUALLY_EXPLICIT", "HARM_CATEGORY_DANGEROUS_CONTENT"}
             /\ \A c \in DOMAIN genCall.safety_settings.v :
                   genCall.safety_settings.v[c] = "BLOCK_NONE"
        ELSE IF "safety_settings" \in DOMAIN req.body
        THEN genCall.safety_settings = req.body.safety_settings
        ELSE genCall.safety_settings = None

\* permissive safety is on, the body brings its own settings, the vendor is called
C7_Witness ==
    /\ Returned /\ genCall # None /\ op = "pipe"
    /\ req.valves.USE_PERMISSIVE_SAFETY
    /\ "safety_settings" \in DOMAIN req.body
    /\ genCall.safety_settings # req.body.safety_settings
    /\ [api |-> "generate_content", key |-> "key-1"] \in {calls[i] : i \in 1..Len(calls)}

====
